---- MODULE Spec2Model ----
(***************************************************************************)
(* certRotator: the certificate-renewal state machine of main_thread.js    *)
(* (start / ok / error handlers, the store writer, the hook runner with    *)
(* per-command retry loops) driven by the timers it sets for itself.       *)
(*                                                                         *)
(* Time is in milliseconds (Date.now()), certificate expirations are in    *)
(* seconds, as in the source.  The interval fractions of the configuration *)
(* (0.2, 0.05, ...) are held in hundredths (20, 5, ...), so that           *)
(* fraction * x is (hundredths * x) \div 100 and the comparison            *)
(* a < fraction * x is the exact a * 100 < hundredths * x.                 *)
(***************************************************************************)
EXTENDS Integers, Sequences, FiniteSets, TLC

VARIABLES
    config,       \* the validated configuration object (immutable)
    current,      \* the session: status, active_cert, second_cert
    file,         \* content of the bundle file config.tls.cert
    now,          \* Date.now()
    pc,           \* where the invocation of main() stands
    timer,        \* the timer set by scheduleNextStatusTransition
    cycle,        \* locals and trace of the running (or last) invocation
    prev,         \* summary of the invocation before it
    hookName,     \* the list the hook runner was last called for
    hooks,        \* per command: the closure state of its retry loop
    runner,       \* state of the promise runHookCommands returned
    clean,        \* no failure, no slow operation, one lifetime so far
    slow,         \* how many slow operations the run has had
    failures,     \* how many CA calls, store writes and commands have failed
    proc,         \* the process: running, exited with a code, or killed
    exitTimer     \* the timer a SIGINT or SIGTERM handler set

vars == <<config, current, file, now, pc, timer, cycle, prev, hookName, hooks,
          runner, clean, slow, failures, proc, exitTimer>>

\* What index.js adds around the state machine.
process == <<proc, exitTimer>>

---------------------------------------------------------------------------
\* Bounds of the model.

\* Time horizon, in ms: no timer is awaited past it.
MaxTime == 4900000

\* No operation is slow past this time, in ms: the first renewal cycles.
SlowUntil == 1500000

\* How long a slow operation (a CA call, a hook command) takes, in ms.
OpDur == 500

\* How many operations of one run may be slow.
MaxSlow == 1

\* How many CA calls, store writes and hook commands of one run may fail.
MaxFailures == 3

\* The lifetime, in seconds, of the certificates the CA normally issues.
Lifetime == 3600

\* Lifetimes the CA may give a certificate: already expired, or the normal one.
Lifetimes == {0, Lifetime}

---------------------------------------------------------------------------
\* Values.

\* expiration is in seconds, Date.now() in ms.
MsPerSec == 1000

\* The number JavaScript arithmetic yields from an absent ttl
\* (undefined * x, undefined - x): no ttl the code stores is negative.
NaN == -1

\* An absent certificate (null, or a field never assigned).
NoCert == [id |-> 0, expiration |-> 0, ttl |-> NaN]

\* The text after "BEGIN CERTIFICATE" / "BEGIN PRIVATE KEY" of the bundle the
\* CA issued with a given id.
Serial == <<"1", "2", "3", "4">>

\* certData.certificate and certData.private_key: strings, as sequences of
\* tokens; those of two certificates differ.
certificate(certData) == <<"CERTIFICATE", Serial[certData.id]>>

private_key(certData) == <<"PRIVATE KEY", Serial[certData.id]>>

\* The bundle of a certificate: certificate + "\n" + private_key.
Bundle(certData) == certificate(certData) \o <<"\n">> \o private_key(certData)

\* What the configured file holds before the first write: the longer bundle
\* an earlier installation left there.
StaleFile == <<"CERTIFICATE", "0", "\n", "PRIVATE KEY", "0", "\n">>

\* fraction * x, for a fraction in hundredths.
Times(x, hundredths) == IF x = NaN THEN NaN ELSE (x * hundredths) \div 100

\* a < fraction * x; every comparison with NaN is false.
LessThanTimes(a, x, hundredths) == x # NaN /\ a * 100 < x * hundredths

---------------------------------------------------------------------------
\* Configuration.

checkRange(val, min, max) == val >= min /\ val <= max

\* parse_config.js: the ranges of the intervals (in hundredths; default in ms).
validateConfig(intervals) ==
    /\ checkRange(intervals.ok, 1, 45)
    /\ checkRange(intervals.error, 1, 30)
    /\ intervals.default >= 0
    /\ checkRange(intervals.buffer, 5, 80)

\* The intervals of example/example.json, the extremes the validation admits,
\* a wide buffer window with slow retries, and one set it rejects.
CandidateIntervals ==
    { [ok |-> 20, error |-> 5,  default |-> 30000, buffer |-> 25],
      [ok |-> 45, error |-> 30, default |-> 5000,  buffer |-> 5],
      [ok |-> 20, error |-> 30, default |-> 30000, buffer |-> 80],
      [ok |-> 50, error |-> 5,  default |-> 30000, buffer |-> 25] }

Hook(every, num) == [onfail |-> [retry_every |-> every, retry_num |-> num]]

\* The onstart and onreplace lists: no hooks, or one command with three
\* attempts for the one and two commands for the other.
HookLists ==
    { [onstart |-> <<>>, onreplace |-> <<>>],
      [onstart |-> <<Hook(1000, 3)>>,
       onreplace |-> <<Hook(1000, 2), Hook(2000, 1)>>],
      [onstart |-> <<Hook(1000, 2), Hook(2000, 1)>>,
       onreplace |-> <<Hook(1000, 3)>>] }

Configs ==
    { [intervals |-> i, onstart |-> h.onstart, onreplace |-> h.onreplace] :
        i \in {c \in CandidateIntervals : validateConfig(c)},
        h \in HookLists }

\* Hook specs as the configuration file gives them.  A JSON object is a
\* record of the properties it has; typeof tells a value that is no object.
True == [typeof |-> "boolean"]

TypeOf(val) == IF "typeof" \in DOMAIN val THEN val.typeof ELSE "object"

\* Hook specs without onfail, with onfail true, with an onfail object that
\* has both, one or none of the fields, and three the validation rejects.
RawHooks ==
    { [command |-> "reload"],
      [command |-> "reload", onfail |-> True],
      [command |-> "reload", onfail |-> [typeof |-> "object"]],
      [command |-> "reload", onfail |-> [retry_every |-> 1000]],
      [command |-> "reload", onfail |-> [retry_num |-> 2]],
      [command |-> "reload", onfail |-> [retry_every |-> 1000, retry_num |-> 2]],
      [command |-> "reload", onfail |-> [retry_every |-> 999, retry_num |-> 2]],
      [command |-> "reload", onfail |-> [retry_every |-> 1000, retry_num |-> 0]],
      [command |-> "reload", onfail |-> [typeof |-> "string"]] }

\* parse_config.js, validateHookArray: every item has a command; onfail, if
\* there, is true or an object; retry_every and retry_num, if there, are in
\* their ranges.  Nothing is added to the item.
validateHookArray(arr) ==
    \A i \in 1..Len(arr) :
        /\ "command" \in DOMAIN arr[i]
        /\ "onfail" \in DOMAIN arr[i] =>
              LET val == arr[i].onfail
              IN  /\ val = True \/ TypeOf(val) = "object"
                  /\ TypeOf(val) = "object" =>
                        /\ "retry_every" \in DOMAIN val
                              => val.retry_every >= 1000 /\ val.retry_every <= 1800000
                        /\ "retry_num" \in DOMAIN val
                              => val.retry_num >= 1 /\ val.retry_num <= 1000

\* The configurations index.js hands to main_thread: what get_config() read,
\* if parse_config() did not throw.  The intervals are those of the example;
\* both lists hold the same one hook spec.
ParsedConfigs ==
    { c \in { [intervals |-> i, onstart |-> <<h>>, onreplace |-> <<h>>] :
                 i \in {[ok |-> 20, error |-> 5, default |-> 30000, buffer |-> 25]},
                 h \in RawHooks } :
        /\ validateHookArray(c.onreplace)
        /\ validateHookArray(c.onstart)
        /\ validateConfig(c.intervals) }

---------------------------------------------------------------------------
\* The state the invocations of main() work on, as one record.

Session ==
    [current |-> current, file |-> file, pc |-> pc, timer |-> timer,
     cycle |-> cycle, hookName |-> hookName, hooks |-> hooks, runner |-> runner]

NoTimer == [set |-> FALSE, due |-> 0]

\* The locals of one invocation of main() and the trace of what it did.
\* entry is the session as the handler found it; checked, remaining and ttl
\* record the buffer check (timeUntilExpiration and active_cert.ttl there);
\* fetchedAt is the time the awaited CA call ended, which is the time of the
\* write that follows it.
NewCycle(handler, retryTime, entry) ==
    [handler |-> handler, retryTime |-> retryTime, certData |-> 0, entry |-> entry,
     fetch |-> "none", checked |-> FALSE, remaining |-> 0, ttl |-> NaN,
     write |-> "none", promoted |-> FALSE, hooks |-> "none", ended |-> "no",
     delay |-> NaN, scheduled |-> 0, at |-> 0, fetchedAt |-> 0]

\* setTimeout(fn, delay): Node runs a delay that is NaN or below 1 as 1 ms.
setTimeout(delay, t) ==
    [set |-> TRUE, due |-> t + (IF delay = NaN \/ delay < 1 THEN 1 ELSE delay)]

\* A return of the handler that leaves no timer behind.
scheduleNextStatusTransition_NoTimer(s, delay, t) ==
    [s EXCEPT !.pc = "idle",
              !.cycle.ended = "scheduled",
              !.cycle.delay = delay,
              !.cycle.at = t]

\* scheduleNextStatusTransition(delay, current, config), and the handler's
\* return that follows every call of it.
scheduleNextStatusTransition(s, delay, t) ==
    [s EXCEPT !.timer = setTimeout(delay, t),
              !.pc = "idle",
              !.cycle.ended = "scheduled",
              !.cycle.delay = delay,
              !.cycle.scheduled = @ + 1,
              !.cycle.at = t]

\* A throw out of the handler: the promise of main() rejects, nothing is scheduled.
throw(s, t) ==
    [s EXCEPT !.pc = "rejected", !.cycle.ended = "threw", !.cycle.at = t]

\* writeFileSync that writes over the old content without truncating it.
writeFileSync_NoTruncate(content, data) ==
    data \o SubSeq(content, Len(data) + 1, Len(content))

\* fs.writeFileSync(path, data), flag 'w': the file is truncated, then the
\* data is written from its start.
writeFileSync(content, data) ==
    LET truncated == SubSeq(content, 1, 0)
    IN  truncated \o data

\* writeCertificateToFile(certData, config), when fs.writeFileSync succeeds.
writeCertificateToFile(s, certData) ==
    [s EXCEPT !.file = writeFileSync(s.file, certificate(certData) \o <<"\n">>
                                                 \o private_key(certData)),
              !.cycle.write = "ok"]

\* The buffer check is made: what it compared is recorded.
Checked(s, t) ==
    [s EXCEPT !.cycle.checked = TRUE,
              !.cycle.remaining = s.current.active_cert.expiration * MsPerSec - t,
              !.cycle.ttl = s.current.active_cert.ttl]

\* timeUntilExpiration < bufferTime for the active certificate.
BufferCond(s, t) ==
    LessThanTimes(s.current.active_cert.expiration * MsPerSec - t,
                  s.current.active_cert.ttl, config.intervals.buffer)

\* The object certData refers to: the fetched certificate is the session's
\* active_cert or second_cert (the same object, not a copy).
CertData(s) ==
    IF s.current.active_cert.id = s.cycle.certData THEN s.current.active_cert
    ELSE IF s.current.second_cert.id = s.cycle.certData THEN s.current.second_cert
    ELSE NoCert

\* certData.ttl = ttl, seen through whichever session field holds the object.
SetTtl(s, ttl) ==
    [s EXCEPT !.current.active_cert.ttl =
                  IF s.current.active_cert.id = s.cycle.certData THEN ttl ELSE @,
              !.current.second_cert.ttl =
                  IF s.current.second_cert.id = s.cycle.certData
                     /\ s.current.active_cert.id # s.cycle.certData THEN ttl ELSE @]

\* CalculateTtl with the delay taken from intervals.error.
CalculateTtl_ErrorInterval(s, t) ==
    LET ttl == CertData(s).expiration * MsPerSec - t
    IN  IF ttl <= 0
        THEN throw(s, t)
        ELSE scheduleNextStatusTransition(
                 [SetTtl(s, ttl) EXCEPT !.current.status = "ok"],
                 Times(ttl, config.intervals.error), t)

\* CalculateTtl that also renews the ttl of the active certificate.
CalculateTtl_Recompute(s, t) ==
    LET ttl == CertData(s).expiration * MsPerSec - t
    IN  IF ttl <= 0
        THEN throw(s, t)
        ELSE scheduleNextStatusTransition(
                 [SetTtl(s, ttl) EXCEPT
                      !.current.status = "ok",
                      !.current.active_cert.ttl =
                          s.current.active_cert.expiration * MsPerSec - t],
                 Times(ttl, config.intervals.ok), t)

\* The end of the three handlers: compute the ttl of the fetched certificate,
\* record it, go to ok and schedule the next renewal.
CalculateTtl(s, t) ==
    LET ttl == CertData(s).expiration * MsPerSec - t
    IN  IF ttl <= 0
        THEN throw(s, t)
        ELSE scheduleNextStatusTransition(
                 [SetTtl(s, ttl) EXCEPT !.current.status = "ok"],
                 Times(ttl, config.intervals.ok), t)

---------------------------------------------------------------------------
\* The hook runner.

\* obj[name] as JavaScript reads it: undefined when obj has no such property.
Field(obj, name) == IF name \in DOMAIN obj THEN obj[name] ELSE NaN

\* The closure of one command's promise, after the first call of attempt():
\* attempts = 1 and the command is running.  waits and waited count the
\* setTimeout calls of the loop and the delays they were given.
\* A hook spec without onfail makes the reads of hook.onfail.retry_num throw
\* in the promise's executor: the promise is rejected before any attempt.
HookClosure(hook) ==
    IF "onfail" \in DOMAIN hook
    THEN [attempts |-> 1, maxAttempts |-> Field(hook.onfail, "retry_num"),
          interval |-> Field(hook.onfail, "retry_every"), st |-> "running",
          due |-> 0, waits |-> 0, waited |-> 0]
    ELSE [attempts |-> 0, maxAttempts |-> NaN, interval |-> NaN,
          st |-> "exhausted", due |-> 0, waits |-> 0, waited |-> 0]

\* null and undefined as values of the hookArray parameter: no arrays, and
\* equal to no hook list.
Null == <<[onfail |-> [retry_every |-> NaN, retry_num |-> 0]]>>

Undefined == <<[onfail |-> [retry_every |-> NaN, retry_num |-> NaN]]>>

\* Array.isArray(hookArray).
ArrayIsArray(hookArray) == hookArray \notin {Null, Undefined}

\* PromiseAll as Promise.any: fulfilled as soon as one promise is.
PromiseAll_Any(s) ==
    IF s.runner # "pending" THEN s.runner
    ELSE IF \E i \in 1..Len(s.hooks) : s.hooks[i].st = "succeeded" THEN "resolved"
    ELSE IF \A i \in 1..Len(s.hooks) : s.hooks[i].st = "exhausted" THEN "rejected"
    ELSE "pending"

\* PromiseAll as Promise.allSettled followed by a check: settled only when
\* no command is running or waiting.
PromiseAll_Settled(s) ==
    IF s.runner # "pending" THEN s.runner
    ELSE IF \E i \in 1..Len(s.hooks) : s.hooks[i].st \in {"running", "waiting"}
         THEN "pending"
    ELSE IF \E i \in 1..Len(s.hooks) : s.hooks[i].st = "exhausted" THEN "rejected"
    ELSE "resolved"

\* Promise.all(promises): fulfilled when every promise is, rejected as soon
\* as one is; once settled it stays as it is.
PromiseAll(s) ==
    IF s.runner # "pending" THEN s.runner
    ELSE IF \E i \in 1..Len(s.hooks) : s.hooks[i].st = "exhausted" THEN "rejected"
    ELSE IF \A i \in 1..Len(s.hooks) : s.hooks[i].st = "succeeded" THEN "resolved"
    ELSE "pending"

\* runHookCommands that tests only hookArray.length === 0.
runHookCommands_LengthOnly(s, hookArray, name) ==
    IF Len(hookArray) = 0
    THEN [s EXCEPT !.hookName = name, !.hooks = <<>>, !.runner = "resolved",
                   !.cycle.hooks = name]
    ELSE [s EXCEPT !.hookName = name,
                   !.hooks = [i \in 1..Len(hookArray) |-> HookClosure(hookArray[i])],
                   !.runner = "pending",
                   !.cycle.hooks = name]

\* runHookCommands(hookArray, hookName): no array or an empty one resolves
\* at once; otherwise every command makes its first attempt and the caller
\* awaits Promise.all of the commands' promises.
runHookCommands(s, hookArray, name) ==
    IF ~ArrayIsArray(hookArray) \/ Len(hookArray) = 0
    THEN [s EXCEPT !.hookName = name, !.hooks = <<>>, !.runner = "resolved",
                   !.cycle.hooks = name]
    ELSE LET s1 == [s EXCEPT !.hookName = name,
                             !.hooks = [i \in 1..Len(hookArray) |->
                                           HookClosure(hookArray[i])],
                             !.runner = "pending",
                             !.cycle.hooks = name]
         IN  [s1 EXCEPT !.runner = PromiseAll(s1)]

\* attemptSucceeded that sets completed and never calls resolve().
attemptSucceeded_NoResolve(s, i) ==
    [s EXCEPT !.hooks[i].st = "succeeded"]

\* The command of attempt() closed with code 0: completed = true, resolve().
attemptSucceeded(s, i) ==
    LET s1 == [s EXCEPT !.hooks[i].st = "succeeded"]
    IN  [s1 EXCEPT !.runner = PromiseAll(s1)]

\* attemptFailed with attempts > maxAttempts: one attempt too many.
attemptFailed_OffByOne(s, i, t) ==
    LET h  == s.hooks[i]
        s1 == IF h.attempts > h.maxAttempts
              THEN [s EXCEPT !.hooks[i].st = "exhausted"]
              ELSE [s EXCEPT !.hooks[i].st = "waiting",
                             !.hooks[i].due = setTimeout(h.interval, t).due,
                             !.hooks[i].waits = @ + 1,
                             !.hooks[i].waited = @ + h.interval]
    IN  [s1 EXCEPT !.runner = IF s1.runner # "pending" THEN s1.runner
                              ELSE IF s1.hooks[i].st = "exhausted" THEN "rejected"
                              ELSE "pending"]

\* The command of attempt() failed: reject when attempts >= maxAttempts
\* (false of an undefined maxAttempts), otherwise
\* setTimeout(() => attempt(), interval).
attemptFailed(s, i, t) ==
    LET h  == s.hooks[i]
        s1 == IF h.maxAttempts # NaN /\ h.attempts >= h.maxAttempts
              THEN [s EXCEPT !.hooks[i].st = "exhausted"]
              ELSE [s EXCEPT !.hooks[i].st = "waiting",
                             !.hooks[i].due = setTimeout(h.interval, t).due,
                             !.hooks[i].waits = @ + 1,
                             !.hooks[i].waited = @ + h.interval]
    IN  [s1 EXCEPT !.runner = PromiseAll(s1)]

\* attempt() that gives the loop up once the runner has reported failure.
attempt_Abandon(s, i) ==
    IF s.hooks[i].st = "succeeded" THEN s
    ELSE IF s.runner = "rejected" THEN [s EXCEPT !.hooks[i].st = "exhausted"]
    ELSE [s EXCEPT !.hooks[i].attempts = @ + 1, !.hooks[i].st = "running"]

\* The retry timer fired: attempt() runs the command again.
attempt(s, i) ==
    IF s.hooks[i].st = "succeeded" THEN s
    ELSE [s EXCEPT !.hooks[i].attempts = @ + 1, !.hooks[i].st = "running"]

---------------------------------------------------------------------------
\* The handlers, from the await of runHookCommands on.

\* handleStartAfterHooks without current.status = "ok" and certData.ttl = ttl.
handleStartAfterHooks_NoStatus(s, t) ==
    IF s.runner = "rejected" THEN throw(s, t)
    ELSE scheduleNextStatusTransition(
             s, Times(CertData(s).expiration * MsPerSec - t, config.intervals.ok), t)

\* handleStartAfterHooks that takes an exhausted onstart command as one more
\* failure of the start attempt and retries after intervals.default.
handleStartAfterHooks_Retry(s, t) ==
    IF s.runner = "rejected"
    THEN scheduleNextStatusTransition(s, s.cycle.retryTime, t)
    ELSE CalculateTtl(s, t)

\* handleStart: a rejection is rethrown; otherwise the ttl is computed.
handleStartAfterHooks(s, t) ==
    IF s.runner = "rejected" THEN throw(s, t) ELSE CalculateTtl(s, t)

\* handleOk: the same.
handleOkAfterHooks(s, t) ==
    IF s.runner = "rejected" THEN throw(s, t) ELSE CalculateTtl(s, t)

\* handleError: in the catch of the failed fetch the handler reschedules
\* after retryTime; after a successful fetch it computes the ttl.
handleErrorAfterHooks(s, t) ==
    IF s.runner = "rejected" THEN throw(s, t)
    ELSE IF s.cycle.fetch = "fail"
         THEN scheduleNextStatusTransition(s, s.cycle.retryTime, t)
         ELSE CalculateTtl(s, t)

\* AwaitHooks that schedules the re-entry before it awaits the runner.
AwaitHooks_ScheduleFirst(s, t) ==
    IF s.runner = "pending"
    THEN [s EXCEPT !.pc = "hooks", !.timer = setTimeout(s.cycle.retryTime, t)]
    ELSE IF s.cycle.handler = "start" THEN handleStartAfterHooks(s, t)
    ELSE IF s.cycle.handler = "ok" THEN handleOkAfterHooks(s, t)
    ELSE handleErrorAfterHooks(s, t)

\* await runHookCommands(...): the handler goes on when the promise settles.
AwaitHooks(s, t) ==
    IF s.runner = "pending" THEN [s EXCEPT !.pc = "hooks"]
    ELSE IF s.cycle.handler = "start" THEN handleStartAfterHooks(s, t)
    ELSE IF s.cycle.handler = "ok" THEN handleOkAfterHooks(s, t)
    ELSE handleErrorAfterHooks(s, t)

\* A command's promise settled: if the handler still awaits the runner and
\* the runner settled with it, the handler goes on.
Settle(s, t) == IF s.pc = "hooks" THEN AwaitHooks(s, t) ELSE s

---------------------------------------------------------------------------
\* The handlers, up to the await of runHookCommands.

\* handleStart up to the await of fetchCertificate.
handleStart(s, t) ==
    [s EXCEPT !.cycle = NewCycle("start", config.intervals.default, s.current),
              !.pc = "fetch"]

\* handleOk up to the await of fetchCertificate.
handleOk(s, t) ==
    [s EXCEPT !.cycle = NewCycle("ok", Times(s.current.active_cert.ttl,
                                             config.intervals.error), s.current),
              !.pc = "fetch"]

\* handleError without the check of the active certificate's expiration.
handleError_NoExpiryCheck(s, t) ==
    [s EXCEPT !.cycle = NewCycle("error", Times(s.current.active_cert.ttl,
                                                config.intervals.error), s.current),
              !.pc = "fetch"]

\* handleError that starts over when the active certificate has expired.
handleError_StartOver(s, t) ==
    LET s1 == [s EXCEPT !.cycle = NewCycle("error",
                                      Times(s.current.active_cert.ttl,
                                            config.intervals.error), s.current)]
    IN  IF s.current.active_cert.expiration * MsPerSec < t
        THEN scheduleNextStatusTransition([s1 EXCEPT !.current.status = "start"],
                                          config.intervals.default, t)
        ELSE [s1 EXCEPT !.pc = "fetch"]

\* handleError up to the await of fetchCertificate: an expired active
\* certificate is thrown before anything is tried.
handleError(s, t) ==
    LET s1 == [s EXCEPT !.cycle = NewCycle("error",
                                      Times(s.current.active_cert.ttl,
                                            config.intervals.error), s.current)]
    IN  IF s.current.active_cert.expiration * MsPerSec < t
        THEN throw(s1, t)
        ELSE [s1 EXCEPT !.pc = "fetch"]

\* main(current, config): the switch on current.status.
main(s, t) ==
    IF s.current.status = "start" THEN handleStart(s, t)
    ELSE IF s.current.status = "ok" THEN handleOk(s, t)
    ELSE IF s.current.status = "error" THEN handleError(s, t)
    ELSE throw([s EXCEPT !.cycle = NewCycle("unknown", NaN, s.current)], t)

\* handleStartFetchFailed that rethrows the error of the CA.
handleStartFetchFailed_Rethrow(s, t) ==
    throw([s EXCEPT !.cycle.fetch = "fail"], t)

\* handleStart, the catch of the failed fetch.
handleStartFetchFailed(s, t) ==
    scheduleNextStatusTransition([s EXCEPT !.cycle.fetch = "fail"],
                                 s.cycle.retryTime, t)

\* handleStartFetched that runs the onstart hooks whether or not the write
\* succeeded.
handleStartFetched_HooksAnyway(s, certData, written, t) ==
    LET s1 == [s EXCEPT !.current.active_cert = certData,
                        !.current.second_cert = NoCert,
                        !.cycle.fetch = "ok",
                        !.cycle.certData = certData.id]
    IN  IF ~written
        THEN AwaitHooks(runHookCommands([s1 EXCEPT !.cycle.write = "fail"],
                                        config.onstart, "onstart"), t)
        ELSE AwaitHooks(runHookCommands(writeCertificateToFile(s1, certData),
                                        config.onstart, "onstart"), t)

\* handleStartFetched that treats a failed first write as the later handlers
\* treat theirs: the session goes to error.
handleStartFetched_WriteFailureError(s, certData, written, t) ==
    LET s1 == [s EXCEPT !.current.active_cert = certData,
                        !.current.second_cert = NoCert,
                        !.cycle.fetch = "ok",
                        !.cycle.certData = certData.id]
    IN  IF ~written
        THEN scheduleNextStatusTransition(
                 [s1 EXCEPT !.cycle.write = "fail", !.current.status = "error"],
                 s1.cycle.retryTime, t)
        ELSE AwaitHooks(runHookCommands(writeCertificateToFile(s1, certData),
                                        config.onstart, "onstart"), t)

\* handleStart that checks the expiration before it writes the certificate.
handleStartFetched_CheckFirst(s, certData, written, t) ==
    LET s1 == [s EXCEPT !.current.active_cert = certData,
                        !.current.second_cert = NoCert,
                        !.cycle.fetch = "ok",
                        !.cycle.certData = certData.id]
    IN  IF certData.expiration * MsPerSec - t <= 0
        THEN throw(s1, t)
        ELSE IF ~written
        THEN scheduleNextStatusTransition([s1 EXCEPT !.cycle.write = "fail"],
                                          s1.cycle.retryTime, t)
        ELSE AwaitHooks(runHookCommands(writeCertificateToFile(s1, certData),
                                        config.onstart, "onstart"), t)

\* handleStart after the fetch: the certificate becomes active_cert, is
\* written (written = the write did not throw) and the onstart hooks run.
handleStartFetched(s, certData, written, t) ==
    LET s1 == [s EXCEPT !.current.active_cert = certData,
                        !.current.second_cert = NoCert,
                        !.cycle.fetch = "ok",
                        !.cycle.certData = certData.id]
    IN  IF ~written
        THEN scheduleNextStatusTransition([s1 EXCEPT !.cycle.write = "fail"],
                                          s1.cycle.retryTime, t)
        ELSE AwaitHooks(runHookCommands(writeCertificateToFile(s1, certData),
                                        config.onstart, "onstart"), t)

\* Promote without the swap: the file is written, active_cert is left.
Promote_NoSwap(s) ==
    [writeCertificateToFile(s, s.current.second_cert) EXCEPT !.cycle.promoted = TRUE]

\* The promotion of second_cert after a successful write.
Promote(s) ==
    [writeCertificateToFile(s, s.current.second_cert)
        EXCEPT !.current.active_cert = s.current.second_cert,
               !.current.second_cert = NoCert,
               !.cycle.promoted = TRUE]

\* handleOkFetchFailed that stays in ok and retries after intervals.default.
handleOkFetchFailed_Default(s, t) ==
    scheduleNextStatusTransition([s EXCEPT !.cycle.fetch = "fail"],
                                 config.intervals.default, t)

\* handleOk, the catch of the failed fetch.
handleOkFetchFailed(s, t) ==
    scheduleNextStatusTransition(
        [s EXCEPT !.cycle.fetch = "fail", !.current.status = "error"],
        s.cycle.retryTime, t)

\* handleOkFetched that promotes without running the onreplace hooks.
handleOkFetched_NoHooks(s, certData, written, t) ==
    LET s1 == [Checked(s, t) EXCEPT !.current.second_cert = certData,
                                    !.cycle.fetch = "ok",
                                    !.cycle.certData = certData.id]
    IN  IF BufferCond(s1, t)
        THEN IF written
             THEN CalculateTtl(Promote(s1), t)
             ELSE scheduleNextStatusTransition(
                      [s1 EXCEPT !.cycle.write = "fail", !.current.status = "error"],
                      s1.cycle.retryTime, t)
        ELSE CalculateTtl(s1, t)

\* handleOkFetched that drops the fetched certificate when its write fails.
handleOkFetched_DropStandby(s, certData, written, t) ==
    LET s1 == [Checked(s, t) EXCEPT !.current.second_cert = certData,
                                    !.cycle.fetch = "ok",
                                    !.cycle.certData = certData.id]
    IN  IF BufferCond(s1, t)
        THEN IF written
             THEN AwaitHooks(runHookCommands(Promote(s1), config.onreplace,
                                             "onreplace"), t)
             ELSE scheduleNextStatusTransition(
                      [s1 EXCEPT !.cycle.write = "fail", !.current.status = "error",
                                 !.current.second_cert = NoCert],
                      s1.cycle.retryTime, t)
        ELSE CalculateTtl(s1, t)

\* handleOk after the fetch: second_cert, the buffer check, the promotion
\* with its onreplace hooks, then the ttl.
handleOkFetched(s, certData, written, t) ==
    LET s1 == [Checked(s, t) EXCEPT !.current.second_cert = certData,
                                    !.cycle.fetch = "ok",
                                    !.cycle.certData = certData.id]
    IN  IF BufferCond(s1, t)
        THEN IF written
             THEN AwaitHooks(runHookCommands(Promote(s1), config.onreplace,
                                             "onreplace"), t)
             ELSE scheduleNextStatusTransition(
                      [s1 EXCEPT !.cycle.write = "fail", !.current.status = "error"],
                      s1.cycle.retryTime, t)
        ELSE CalculateTtl(s1, t)

\* handleErrorFetchFailed that swaps the standby in without the buffer check.
handleErrorFetchFailed_NoCheck(s, written, t) ==
    LET s1 == [Checked(s, t) EXCEPT !.cycle.fetch = "fail"]
    IN  IF s1.current.second_cert.id # 0
        THEN IF written
             THEN AwaitHooks(runHookCommands(Promote(s1), config.onreplace,
                                             "onreplace"), t)
             ELSE scheduleNextStatusTransition([s1 EXCEPT !.cycle.write = "fail"],
                                               s1.cycle.retryTime, t)
        ELSE scheduleNextStatusTransition(s1, s1.cycle.retryTime, t)

\* handleErrorFetchFailed that lets the error of the standby's write out.
handleErrorFetchFailed_WriteThrows(s, written, t) ==
    LET s1 == [Checked(s, t) EXCEPT !.cycle.fetch = "fail"]
    IN  IF BufferCond(s1, t) /\ s1.current.second_cert.id # 0
        THEN IF written
             THEN AwaitHooks(runHookCommands(Promote(s1), config.onreplace,
                                             "onreplace"), t)
             ELSE throw([s1 EXCEPT !.cycle.write = "fail"], t)
        ELSE scheduleNextStatusTransition(s1, s1.cycle.retryTime, t)

\* handleError, the catch of the failed fetch: a standby is swapped in when
\* the active certificate is in its buffer window.
handleErrorFetchFailed(s, written, t) ==
    LET s1 == [Checked(s, t) EXCEPT !.cycle.fetch = "fail"]
    IN  IF BufferCond(s1, t) /\ s1.current.second_cert.id # 0
        THEN IF written
             THEN AwaitHooks(runHookCommands(Promote(s1), config.onreplace,
                                             "onreplace"), t)
             ELSE scheduleNextStatusTransition([s1 EXCEPT !.cycle.write = "fail"],
                                               s1.cycle.retryTime, t)
        ELSE scheduleNextStatusTransition(s1, s1.cycle.retryTime, t)

\* handleErrorFetched that makes the fetched certificate active before it
\* writes it, and leaves it active when the write fails.
handleErrorFetched_SwapFirst(s, certData, written, t) ==
    LET s1 == [Checked(s, t) EXCEPT !.current.second_cert = certData,
                                    !.cycle.fetch = "ok",
                                    !.cycle.certData = certData.id]
    IN  IF BufferCond(s1, t)
        THEN IF written
             THEN AwaitHooks(runHookCommands(Promote(s1), config.onreplace,
                                             "onreplace"), t)
             ELSE scheduleNextStatusTransition(
                      [s1 EXCEPT !.cycle.write = "fail", !.current.status = "error",
                                 !.current.active_cert = certData,
                                 !.current.second_cert = NoCert],
                      s1.cycle.retryTime, t)
        ELSE CalculateTtl(s1, t)

\* handleErrorFetched that keeps retrying in error when no promotion is due.
handleErrorFetched_StaysError(s, certData, written, t) ==
    LET s1 == [Checked(s, t) EXCEPT !.current.second_cert = certData,
                                    !.cycle.fetch = "ok",
                                    !.cycle.certData = certData.id]
    IN  IF BufferCond(s1, t)
        THEN IF written
             THEN AwaitHooks(runHookCommands(Promote(s1), config.onreplace,
                                             "onreplace"), t)
             ELSE scheduleNextStatusTransition(
                      [s1 EXCEPT !.cycle.write = "fail", !.current.status = "error"],
                      s1.cycle.retryTime, t)
        ELSE scheduleNextStatusTransition(s1, s1.cycle.retryTime, t)

\* handleError after the fetch: as handleOk.
handleErrorFetched(s, certData, written, t) ==
    LET s1 == [Checked(s, t) EXCEPT !.current.second_cert = certData,
                                    !.cycle.fetch = "ok",
                                    !.cycle.certData = certData.id]
    IN  IF BufferCond(s1, t)
        THEN IF written
             THEN AwaitHooks(runHookCommands(Promote(s1), config.onreplace,
                                             "onreplace"), t)
             ELSE scheduleNextStatusTransition(
                      [s1 EXCEPT !.cycle.write = "fail", !.current.status = "error"],
                      s1.cycle.retryTime, t)
        ELSE CalculateTtl(s1, t)

\* The handler's catch of the failed fetch.
FetchFailed(s, written, t) ==
    IF s.cycle.handler = "start" THEN handleStartFetchFailed(s, t)
    ELSE IF s.cycle.handler = "ok" THEN handleOkFetchFailed(s, t)
    ELSE handleErrorFetchFailed(s, written, t)

\* The handler after the fetch.
Fetched(s, certData, written, t) ==
    IF s.cycle.handler = "start" THEN handleStartFetched(s, certData, written, t)
    ELSE IF s.cycle.handler = "ok" THEN handleOkFetched(s, certData, written, t)
    ELSE handleErrorFetched(s, certData, written, t)

---------------------------------------------------------------------------
\* The certificate authority.

\* A certificate the session and the file do not hold.
FreshId(s) ==
    CHOOSE i \in 1..4 :
        /\ i \notin {s.current.active_cert.id, s.current.second_cert.id}
        /\ Bundle([id |-> i]) # s.file

\* fetchCertificate(config): a new certificate that expires life seconds
\* from now; the ttl is not part of what the CA returns.
fetchCertificate(s, life, t) ==
    [id |-> FreshId(s), expiration |-> (t \div MsPerSec) + life, ttl |-> NaN]

---------------------------------------------------------------------------
\* The state machine.

Apply(s) ==
    \E next \in {s} :
        /\ current' = next.current
        /\ file' = next.file
        /\ pc' = next.pc
        /\ timer' = next.timer
        /\ cycle' = next.cycle
        /\ hookName' = next.hookName
        /\ hooks' = next.hooks
        /\ runner' = next.runner

Summary(c) == [handler |-> c.handler, fetch |-> c.fetch, ended |-> c.ended,
               delay |-> c.delay, promoted |-> c.promoted]

\* The state index.js calls main_thread in.
Started ==
    /\ current = [status |-> "start", active_cert |-> NoCert, second_cert |-> NoCert]
    /\ file = StaleFile
    /\ now = 0
    /\ pc = "boot"
    /\ timer = NoTimer
    /\ cycle = NewCycle("none", NaN, current)
    /\ prev = Summary(NewCycle("none", NaN, current))
    /\ hookName = "none"
    /\ hooks = <<>>
    /\ runner = "none"
    /\ clean = TRUE
    /\ slow = 0
    /\ failures = 0
    /\ proc = "running"
    /\ exitTimer = NoTimer

Init == config \in Configs /\ Started

\* index.js: main_thread({status: "start"}, config).
Bootstrap ==
    /\ pc = "boot"
    /\ Apply(main(Session, now))
    /\ UNCHANGED <<config, now, prev, clean, slow, failures, process>>

\* The timer of scheduleNextStatusTransition fires: main(current, config).
TimerFires ==
    /\ timer.set
    /\ now >= timer.due
    /\ Apply(main([Session EXCEPT !.timer = NoTimer], now))
    /\ prev' = Summary(cycle)
    /\ UNCHANGED <<config, now, clean, slow, failures, process>>

\* The write a failed fetch may lead to (the swap of the standby) fails.
FetchFails ==
    /\ pc = "fetch"
    /\ failures < MaxFailures
    /\ \E written \in BOOLEAN :
        \E next \in {FetchFailed([Session EXCEPT !.cycle.fetchedAt = now],
                                 written, now)} :
            /\ Apply(next)
            /\ failures' = failures + 1
    /\ clean' = FALSE
    /\ UNCHANGED <<config, now, prev, slow, process>>

FetchSucceeds ==
    /\ pc = "fetch"
    /\ \E life \in Lifetimes, written \in BOOLEAN :
        \E next \in {Fetched([Session EXCEPT !.cycle.fetchedAt = now],
                             fetchCertificate(Session, life, now), written, now)} :
            /\ next.cycle.write = "fail" => failures < MaxFailures
            /\ Apply(next)
            /\ failures' = IF next.cycle.write = "fail" THEN failures + 1
                           ELSE failures
            /\ clean' = (clean /\ life = Lifetime /\ next.cycle.write # "fail")
    /\ UNCHANGED <<config, now, prev, slow, process>>

\* A hook command closes with code 0.
CommandSucceeds ==
    \E i \in 1..Len(hooks) :
        /\ hooks[i].st = "running"
        /\ Apply(Settle(attemptSucceeded(Session, i), now))
        /\ UNCHANGED <<config, now, prev, clean, slow, failures, process>>

\* A hook command fails to start or closes with another code.
CommandFails ==
    \E i \in 1..Len(hooks) :
        /\ hooks[i].st = "running"
        /\ failures < MaxFailures
        /\ Apply(Settle(attemptFailed(Session, i, now), now))
        /\ failures' = failures + 1
        /\ clean' = FALSE
        /\ UNCHANGED <<config, now, prev, slow, process>>

\* The retry timer of a hook command fires.
RetryTimerFires ==
    \E i \in 1..Len(hooks) :
        /\ hooks[i].st = "waiting"
        /\ now >= hooks[i].due
        /\ Apply(attempt(Session, i))
        /\ UNCHANGED <<config, now, prev, clean, slow, failures, process>>

\* The deadlines of the pending timers.
Deadlines ==
    {timer.due : x \in {y \in {1} : timer.set}}
        \cup {exitTimer.due : x \in {y \in {1} : exitTimer.set}}
        \cup {hooks[i].due : i \in {j \in 1..Len(hooks) : hooks[j].st = "waiting"}}

\* An operation the process awaits: the CA call or a hook command.
InFlight == pc = "fetch" \/ \E i \in 1..Len(hooks) : hooks[i].st = "running"

\* Time passes until the next timer is due.
TimePasses ==
    /\ Deadlines # {}
    /\ \A d \in Deadlines : d > now
    /\ \E d \in Deadlines :
        /\ \A e \in Deadlines : d <= e
        /\ d <= MaxTime
        /\ now' = d
    /\ UNCHANGED <<config, current, file, pc, timer, cycle, prev, hookName, hooks,
                   runner, clean, slow, failures, process>>

\* An operation in flight takes OpDur ms, no timer being due before.
SlowOperation ==
    /\ InFlight
    /\ slow < MaxSlow
    /\ now + OpDur <= SlowUntil
    /\ \A d \in Deadlines : now + OpDur <= d
    /\ now' = now + OpDur
    /\ slow' = slow + 1
    /\ clean' = FALSE
    /\ UNCHANGED <<config, current, file, pc, timer, cycle, prev, hookName, hooks,
                   runner, failures, process>>

Next ==
    \/ Bootstrap
    \/ TimerFires
    \/ FetchFails
    \/ FetchSucceeds
    \/ CommandSucceeds
    \/ CommandFails
    \/ RetryTimerFires
    \/ TimePasses
    \/ SlowOperation

Spec == Init /\ [][Next]_vars

\* The state machine on the configurations parse_config() lets through.
ConfigInit == config \in ParsedConfigs /\ Started

ConfigSpec == ConfigInit /\ [][Next]_vars

---------------------------------------------------------------------------
\* The process: index.js around the state machine.

\* The delay of the exit timer the signal handlers set, in ms.
GraceDelay == 100

\* The process runs and no rejection of main() waits to be reported: Node
\* reports an unhandled rejection before it runs any other callback.
Undisturbed == proc = "running" /\ pc # "rejected"

\* The files a kill inside fs.writeFileSync can leave: the file was
\* truncated and a part of the data, possibly none, was written.
Partial(data) == {SubSeq(data, 1, k) : k \in 0..(Len(data) - 1)}

\* The sessions the handler awaiting the CA can get to by writing a bundle.
Writes ==
    {next \in {Fetched(Session, fetchCertificate(Session, life, now), TRUE, now) :
                  life \in Lifetimes} \cup {FetchFailed(Session, TRUE, now)} :
        next.cycle.write = "ok"}

\* exit that returns without ending the process.
exit_Returns(p, code) == p

\* process.exit(code).
exit(p, code) == IF code = 0 THEN "exit(0)" ELSE "exit(1)"

\* triggerUncaughtException that only warns of the rejection.
triggerUncaughtException_Warn(p) == p

\* The promise of main() rejected and nothing handles it (index.js calls
\* main_thread() without await or catch, the timer callback likewise): Node
\* raises it as an uncaught exception and the process exits with code 1.
triggerUncaughtException(p) == exit(p, 1)

\* process.on('SIGINT' | 'SIGTERM'): the handler sets the exit timer.  A
\* signal that follows sets a later timer, which changes nothing.
Signal ==
    /\ Undisturbed
    /\ ~exitTimer.set
    /\ now + GraceDelay <= MaxTime
    /\ exitTimer' = setTimeout(GraceDelay, now)
    /\ UNCHANGED <<config, current, file, now, pc, timer, cycle, prev, hookName,
                   hooks, runner, clean, slow, failures, proc>>

\* The exit timer fires: process.exit(0).
ExitTimerFires ==
    /\ Undisturbed
    /\ exitTimer.set
    /\ now >= exitTimer.due
    /\ proc' = exit(proc, 0)
    /\ UNCHANGED <<config, current, file, now, pc, timer, cycle, prev, hookName,
                   hooks, runner, clean, slow, failures, exitTimer>>

\* Node reports the rejection of main().
UnhandledRejection ==
    /\ proc = "running"
    /\ pc = "rejected"
    /\ proc' = triggerUncaughtException(proc)
    /\ UNCHANGED <<config, current, file, now, pc, timer, cycle, prev, hookName,
                   hooks, runner, clean, slow, failures, exitTimer>>

\* The process is killed (SIGKILL, power loss) inside fs.writeFileSync.
KilledDuringWrite ==
    /\ Undisturbed
    /\ pc = "fetch"
    /\ \E next \in Writes :
        \E content \in Partial(next.file) : file' = content
    /\ proc' = "killed"
    /\ UNCHANGED <<config, current, now, pc, timer, cycle, prev, hookName,
                   hooks, runner, clean, slow, failures, exitTimer>>

\* The state machine runs as long as the process does.
Step(A) == Undisturbed /\ A

ProcessNext ==
    \/ Step(Bootstrap)
    \/ Step(TimerFires)
    \/ Step(FetchFails)
    \/ Step(FetchSucceeds)
    \/ Step(CommandSucceeds)
    \/ Step(CommandFails)
    \/ Step(RetryTimerFires)
    \/ Step(TimePasses)
    \/ Step(SlowOperation)
    \/ Signal
    \/ ExitTimerFires
    \/ UnhandledRejection
    \/ KilledDuringWrite

\* Timers that are due fire, time passes, and Node reports a rejection.
Fairness ==
    /\ WF_vars(Step(TimePasses))
    /\ WF_vars(Step(TimerFires))
    /\ WF_vars(Step(RetryTimerFires))
    /\ WF_vars(ExitTimerFires)
    /\ WF_vars(UnhandledRejection)

\* The runs of the process that are checked: the widest renewal interval
\* with each of the hook lists, and the widest buffer window without hooks.
ProcessInit ==
    /\ Init
    /\ \/ config.intervals.ok = 45
       \/ config.intervals.buffer = 80 /\ config.onstart = <<>>

ProcessSpec == ProcessInit /\ [][ProcessNext]_vars /\ Fairness

---------------------------------------------------------------------------
\* The state machine with its timers firing and its operations ending.

\* Timers that are due fire and time passes (the event loop of Node); every
\* CA call and every hook command that is awaited ends, with success once
\* it can fail no more.
Liveness ==
    /\ WF_vars(TimePasses)
    /\ WF_vars(TimerFires)
    /\ WF_vars(RetryTimerFires)
    /\ WF_vars(FetchSucceeds)
    /\ WF_vars(CommandSucceeds)

\* The runs that are checked: the widest renewal interval with each of the
\* hook lists, and the widest buffer window with at most one onreplace command.
LiveInit ==
    /\ Init
    /\ \/ config.intervals.ok = 45
       \/ config.intervals.buffer = 80 /\ Len(config.onreplace) < 2

LiveSpec == LiveInit /\ [][Next]_vars /\ Liveness

---------------------------------------------------------------------------
\* Properties.

\* The invocation has returned or thrown.
Ended == cycle.ended # "no"

\* At the buffer check of this invocation the active certificate was in its
\* buffer window: expiration*1000 - now < ttl * intervals.buffer.
InWindow ==
    /\ cycle.checked
    /\ cycle.ttl # NaN
    /\ cycle.remaining * 100 < cycle.ttl * config.intervals.buffer

\* The session's certificates are those the handler found at entry.
NotMutated ==
    /\ current.active_cert = cycle.entry.active_cert
    /\ current.second_cert = cycle.entry.second_cert

\* The hook specs of the list the runner was called for.
HookSpecs == IF hookName = "onstart" THEN config.onstart ELSE config.onreplace

\* The CA fetch of this invocation of the ok or error handler failed.
FetchFailedCycle ==
    cycle.handler \in {"ok", "error"} /\ cycle.fetch = "fail" /\ Ended

\* C1: in a run where every fetch, write and hook command succeeds at once
\* and every certificate has the same positive lifetime, the current time is
\* never later than the expiration of the active certificate.
C1_BundleNeverExpires ==
    clean => ~(/\ current.active_cert.id # 0
               /\ now > current.active_cert.expiration * MsPerSec)

\* C2: a start cycle whose fetch, write and onstart hooks succeed and whose
\* ttl is positive ends in ok with the fetched bundle active, its ttl
\* recorded, no standby, and one re-entry scheduled.
C2_StartSuccess ==
    (/\ cycle.handler = "start"
     /\ cycle.fetch = "ok"
     /\ cycle.write = "ok"
     /\ runner = "resolved"
     /\ Ended
     /\ current.active_cert.expiration * MsPerSec - cycle.at > 0)
    => /\ pc = "idle"
       /\ current.status = "ok"
       /\ current.active_cert.id # 0
       /\ current.active_cert.id = cycle.certData
       /\ current.active_cert.ttl > 0
       /\ current.second_cert = NoCert
       /\ timer.set
       /\ cycle.scheduled = 1

\* A start cycle that ran its onstart commands has ended in ok.
C2_Witness ==
    /\ cycle.handler = "start"
    /\ cycle.ended = "scheduled"
    /\ cycle.write = "ok"
    /\ hookName = "onstart"
    /\ Len(hooks) > 0
    /\ current.status = "ok"

\* C3 as stated: an ok or error cycle whose fetch succeeds with the active
\* certificate in its buffer window ends with the fetched certificate active.
C3_PromotedInSameCycle ==
    (/\ cycle.handler \in {"ok", "error"}
     /\ cycle.fetch = "ok"
     /\ InWindow
     /\ Ended)
    => current.active_cert.id = cycle.certData

\* C3 amended: ... and the store write succeeds, the fetched certificate is
\* the active one (and in the file, with no standby left) from the write on.
C3_PromotedWhenWritten ==
    (/\ cycle.handler \in {"ok", "error"}
     /\ cycle.fetch = "ok"
     /\ InWindow
     /\ cycle.write # "fail")
    => /\ current.active_cert.id = cycle.certData
       /\ current.second_cert = NoCert
       /\ file = Bundle(current.active_cert)

\* An ok cycle promoted the certificate it fetched and has ended.
C3_Witness ==
    /\ cycle.handler = "ok"
    /\ cycle.fetch = "ok"
    /\ InWindow
    /\ cycle.ended = "scheduled"
    /\ current.active_cert.id = cycle.certData
    /\ cycle.entry.active_cert.id # cycle.certData

\* C4 as stated: an invocation of the error handler whose fetch fails while
\* the active certificate is in its buffer window leaves active_cert and
\* second_cert as they were and does not throw.
C4_ErrorHandlerIdempotent ==
    (cycle.handler = "error" /\ cycle.fetch = "fail" /\ InWindow)
    => NotMutated /\ cycle.ended # "threw"

\* C4 amended: an invocation of the error handler whose fetch fails while
\* the buffer-window condition does not hold or no standby is held leaves
\* active_cert and second_cert as they were, stays in error and schedules
\* one re-entry.
C4_ErrorHandlerIdempotentNoStandby ==
    (/\ cycle.handler = "error"
     /\ cycle.fetch = "fail"
     /\ (~InWindow \/ cycle.entry.second_cert.id = 0))
    => /\ NotMutated
       /\ current.status = "error"
       /\ cycle.ended = "scheduled"
       /\ cycle.scheduled = 1
       /\ timer.set

\* Two error invocations in a row failed to fetch, the second inside the
\* buffer window with no standby to swap in.
C4_Witness ==
    /\ prev.handler = "error"
    /\ prev.fetch = "fail"
    /\ cycle.handler = "error"
    /\ cycle.fetch = "fail"
    /\ InWindow
    /\ cycle.entry.second_cert.id = 0
    /\ cycle.ended = "scheduled"

\* C5: the runner's promise is fulfilled exactly when every command of the
\* list has succeeded, each within its retry_num attempts.
C5_RunnerSucceedsIffAll ==
    Len(hooks) > 0 =>
        (runner = "resolved" <=>
            \A i \in 1..Len(hooks) :
                /\ hooks[i].st = "succeeded"
                /\ hooks[i].attempts <= HookSpecs[i].onfail.retry_num)

\* The runner was fulfilled for two commands, one of them on its second attempt.
C5_Witness ==
    /\ runner = "resolved"
    /\ Len(hooks) = 2
    /\ \E i \in 1..Len(hooks) : hooks[i].attempts = 2

\* C6 as stated: once the runner has settled, every command has succeeded
\* or exhausted its attempts.
C6_SettlesWhenAllDone ==
    (Len(hooks) > 0 /\ runner \in {"resolved", "rejected"})
    => \A i \in 1..Len(hooks) : hooks[i].st \in {"succeeded", "exhausted"}

\* C6 amended: the runner is unsettled exactly while no command has
\* exhausted its attempts and some command has not yet succeeded: it
\* reports success when all have succeeded and failure at the first
\* exhaustion, whatever the other commands are doing.
C6_SettlesAtFirstExhaustion ==
    Len(hooks) > 0 =>
        (runner = "pending" <=>
            /\ \A i \in 1..Len(hooks) : hooks[i].st # "exhausted"
            /\ \E i \in 1..Len(hooks) : hooks[i].st # "succeeded")

\* The runner has rejected while another command is running or waiting.
C6_Witness ==
    /\ runner = "rejected"
    /\ \E i \in 1..Len(hooks) : hooks[i].st \in {"running", "waiting"}

\* C7: a command that has exhausted its attempts was attempted retry_num
\* times with retry_num - 1 waits of retry_every ms, the runner has rejected,
\* main() has thrown and no re-entry is scheduled.
C7_ExhaustedAfterRetryNum ==
    \A i \in 1..Len(hooks) :
        hooks[i].st = "exhausted" =>
            /\ hooks[i].attempts = HookSpecs[i].onfail.retry_num
            /\ hooks[i].waits = HookSpecs[i].onfail.retry_num - 1
            /\ hooks[i].waited =
                   (HookSpecs[i].onfail.retry_num - 1) * HookSpecs[i].onfail.retry_every
            /\ runner = "rejected"
            /\ pc = "rejected"
            /\ cycle.ended = "threw"
            /\ ~timer.set

\* The command with retry_num = 3, retry_every = 1000 has failed three times.
C7_Witness ==
    \E i \in 1..Len(hooks) :
        /\ hooks[i].st = "exhausted"
        /\ HookSpecs[i].onfail = [retry_every |-> 1000, retry_num |-> 3]
        /\ hooks[i].attempts = 3
        /\ hooks[i].waits = 2
        /\ hooks[i].waited = 2000

\* Every certificate the handler found in the session carried a ttl.
EntryTtlsRecorded ==
    /\ cycle.entry.active_cert.ttl # NaN
    /\ cycle.entry.second_cert.id # 0 => cycle.entry.second_cert.ttl # NaN

\* C8 as stated: every ok or error cycle whose fetch fails ends in error with
\* the re-entry scheduled after active_cert.ttl * intervals.error (of the
\* active certificate the handler found), the same delay as the failed cycle
\* before it.  Stated for sessions whose certificates all carry a ttl, so
\* that no violation rests on a standby without one.
C8_SameRetryTime ==
    (FetchFailedCycle /\ EntryTtlsRecorded) =>
        /\ current.status = "error"
        /\ cycle.ended = "scheduled"
        /\ cycle.delay = Times(cycle.entry.active_cert.ttl, config.intervals.error)
        /\ (prev.handler \in {"ok", "error"} /\ prev.fetch = "fail"
                => cycle.delay = prev.delay)

\* C8 amended: ... as long as no standby is promoted in these cycles; the
\* active certificate is then the same throughout.
C8_SameRetryTimeNoPromotion ==
    (FetchFailedCycle /\ ~cycle.promoted) =>
        /\ current.status = "error"
        /\ cycle.ended = "scheduled"
        /\ timer.set
        /\ current.active_cert = cycle.entry.active_cert
        /\ cycle.delay = Times(current.active_cert.ttl, config.intervals.error)
        /\ (prev.handler \in {"ok", "error"} /\ prev.fetch = "fail" /\ ~prev.promoted
                => cycle.delay = prev.delay)

\* The third fetch failure in a row, from ok, with the intervals of the
\* example: each retry after 0.05 * 3600000 ms.
C8_Witness ==
    /\ FetchFailedCycle
    /\ cycle.handler = "error"
    /\ prev.handler = "error"
    /\ prev.fetch = "fail"
    /\ failures = 3
    /\ cycle.entry.second_cert.id = 0
    /\ config.intervals.error = 5
    /\ cycle.delay = 180000
    /\ prev.delay = 180000

\* C9: after a successful start cycle the status is ok and the re-entry is
\* scheduled after intervals.ok * (expiration*1000 - now).
C9_StartDelay ==
    (/\ cycle.handler = "start"
     /\ cycle.fetch = "ok"
     /\ cycle.write = "ok"
     /\ cycle.ended = "scheduled")
    => /\ current.status = "ok"
       /\ timer.set
       /\ cycle.delay =
              (config.intervals.ok
                 * (current.active_cert.expiration * MsPerSec - cycle.at)) \div 100

\* Scenario A: ok = 0.2 and expiration = now + 3600 s give 720000 ms.
C9_Witness ==
    /\ cycle.handler = "start"
    /\ cycle.ended = "scheduled"
    /\ current.status = "ok"
    /\ config.intervals.ok = 20
    /\ current.active_cert.expiration * MsPerSec - cycle.at = 3600000
    /\ cycle.delay = 720000

\* C10: in the ok and error handlers the onreplace hooks are run exactly in
\* the cycles that promoted (whose write succeeded); after the promotion
\* there is no standby; the hooks start after the write, and the re-entry
\* is scheduled only once the runner has been fulfilled.
C10_OnreplaceIffPromoted ==
    cycle.handler \in {"ok", "error"} =>
        /\ cycle.hooks = "onreplace" <=> cycle.write = "ok"
        /\ cycle.hooks # "onstart"
        /\ cycle.write = "ok" =>
              /\ cycle.promoted
              /\ current.second_cert = NoCert
              /\ Bundle(current.active_cert) = file
              /\ current.active_cert.id # cycle.entry.active_cert.id
        /\ runner = "pending" => ~timer.set /\ cycle.ended = "no"
        /\ (cycle.hooks = "onreplace" /\ cycle.ended = "scheduled")
              => runner = "resolved"

\* Scenario B: an ok cycle promoted, ran its onreplace commands and rescheduled.
C10_Witness ==
    /\ cycle.handler = "ok"
    /\ cycle.write = "ok"
    /\ cycle.hooks = "onreplace"
    /\ Len(hooks) > 0
    /\ cycle.ended = "scheduled"
    /\ current.second_cert = NoCert

\* C11: whenever the status is ok or error the file holds exactly the bundle
\* of active_cert (a failed write leaving the file as it was), and the file
\* only ever changes by one whole write, made by the one handler invocation
\* in progress, of the bundle that is active_cert after it.
C11_FileIsActiveBundle ==
    /\ [](current.status \in {"ok", "error"}
            => /\ current.active_cert.id # 0
               /\ file = Bundle(current.active_cert))
    /\ [][file' # file
            => /\ pc = "fetch"
               /\ cycle'.write = "ok"
               /\ current'.active_cert.id # 0
               /\ file' = Bundle(current'.active_cert)]_vars

\* A promotion write failed: the file still holds the active bundle, the
\* fetched one is kept as standby.
C11_Witness ==
    /\ current.status = "error"
    /\ cycle.write = "fail"
    /\ current.second_cert.id # 0
    /\ file = Bundle(current.active_cert)
    /\ file # Bundle(current.second_cert)

\* An invocation enters the handler for the status it finds.
Entered == pc \in {"boot", "idle"} /\ pc' \notin {"boot", "idle"}

\* main() as entered with a status that is none of start, ok and error.
UnknownStatus ==
    main([Session EXCEPT !.timer = NoTimer, !.current.status = "stopped"], now)

\* C12: main() raises when a hook has exhausted its attempts, when the ttl
\* computed for the fetched certificate is not positive, when the error
\* handler is entered with active_cert.expiration*1000 < now (then without
\* any fetch, write or hook), and when the status is not recognized; and
\* once it has raised, no invocation is scheduled or run and the session
\* and the file stay as they are.
C12_UnrecoverableRaises ==
    /\ [](/\ runner = "rejected" => pc = "rejected" /\ cycle.ended = "threw"
          /\ (/\ Ended
              /\ cycle.fetch = "ok"
              /\ cycle.write # "fail"
              /\ CertData(Session).expiration * MsPerSec - cycle.at <= 0)
             => pc = "rejected" /\ cycle.ended = "threw"
          /\ pc = "rejected" => ~timer.set /\ cycle.scheduled = 0
          /\ UnknownStatus.pc = "rejected"
          /\ ~UnknownStatus.timer.set
          /\ UnknownStatus.cycle.fetch = "none"
          /\ UnknownStatus.current.active_cert = current.active_cert
          /\ UnknownStatus.file = file)
    /\ [][(/\ Entered
           /\ current.status = "error"
           /\ current.active_cert.expiration * MsPerSec < now)
          => /\ pc' = "rejected"
             /\ cycle'.ended = "threw"
             /\ cycle'.fetch = "none"
             /\ cycle'.write = "none"
             /\ cycle'.hooks = "none"
             /\ ~timer'.set
             /\ file' = file
             /\ hooks' = hooks
             /\ current' = current]_vars
    /\ [][pc = "rejected"
          => /\ pc' = "rejected"
             /\ ~timer'.set
             /\ cycle' = cycle
             /\ current' = current
             /\ file' = file]_vars

\* The error handler was entered after the active certificate had expired.
C12_Witness ==
    /\ pc = "rejected"
    /\ cycle.handler = "error"
    /\ cycle.fetch = "none"
    /\ cycle.entry.active_cert.expiration * MsPerSec < now
    /\ current.second_cert.id # 0

Complete(content) ==
    content = StaleFile \/ \E i \in 1..4 : content = Bundle([id |-> i])

\* What a handler that absorbed a failure has done: no raise, one re-entry
\* scheduled, status start from start and error otherwise.
Absorbed ==
    /\ cycle.ended = "scheduled"
    /\ cycle.scheduled = 1
    /\ pc = "idle"
    /\ timer.set
    /\ current.status = IF cycle.handler = "start" THEN "start" ELSE "error"

\* C14 as stated: an invocation in which the fetch or the store write
\* failed, the active certificate (if any) being valid throughout, has not
\* raised when it ends: it has scheduled one re-entry, in start from start
\* and in error from ok or error.
C14_RecoverableAbsorbed ==
    (/\ Ended
     /\ cycle.fetch = "fail" \/ cycle.write = "fail"
     /\ cycle.entry.active_cert.id # 0
            => cycle.entry.active_cert.expiration * MsPerSec >= cycle.at)
    => Absorbed

\* C14 amended: ... unless an onreplace hook, run for a standby promoted in
\* the error handler's fetch-failure branch, has exhausted its attempts.
C14_RecoverableAbsorbedUnlessHook ==
    (/\ Ended
     /\ cycle.fetch = "fail" \/ cycle.write = "fail"
     /\ ~(cycle.hooks # "none" /\ runner = "rejected"))
    => Absorbed

\* A failed fetch and then a failed write in the start handler: still start.
C14_Witness ==
    /\ cycle.handler = "start"
    /\ cycle.write = "fail"
    /\ prev.handler = "start"
    /\ prev.fetch = "fail"
    /\ current.status = "start"
    /\ Absorbed

\* C15: while an invocation is in progress (awaiting the CA or the hook
\* runner, retry timers included) no re-entry is scheduled; a re-entry is
\* pending only after the invocation has returned; and no invocation
\* schedules more than one.
C15_OneInvocationAtATime ==
    /\ pc \in {"fetch", "hooks"}
          => ~timer.set /\ cycle.scheduled = 0 /\ cycle.ended = "no"
    /\ timer.set => pc = "idle" /\ cycle.ended = "scheduled"
    /\ pc = "idle" => timer.set
    /\ cycle.scheduled <= 1
    /\ pc = "hooks" => runner = "pending"

\* An ok invocation awaits the hook runner while a command waits for its
\* retry timer.
C15_Witness ==
    /\ pc = "hooks"
    /\ cycle.handler = "ok"
    /\ \E i \in 1..Len(hooks) : hooks[i].st = "waiting"
    /\ ~timer.set

\* C16: whatever happens to the process, the file holds the complete
\* previous bundle or the complete new one.
C16_WriteAtomic == Complete(file)

\* C17: after a SIGINT or SIGTERM the process ends, whatever the state
\* machine is doing; the exit of the signal handler comes no sooner than
\* the grace delay after the signal and leaves a whole bundle in the file.
C17_SignalExits ==
    /\ exitTimer.set ~> (proc # "running")
    /\ [](proc = "exit(0)"
            => /\ exitTimer.set
               /\ now >= exitTimer.due
               /\ Complete(file))
    /\ [][proc' = "exit(0)" /\ proc # "exit(0)" => file' = file]_vars

\* The process has exited on a signal while hook commands were running.
C17_Witness ==
    /\ proc = "exit(0)"
    /\ pc = "hooks"
    /\ \E i \in 1..Len(hooks) : hooks[i].st = "running"
    /\ file = Bundle(current.active_cert)

\* C18: after a successful write the file reads back as the certificate,
\* one newline and the private key of the bundle written, and nothing else.
C18_WriteRoundTrip ==
    cycle.write = "ok" =>
        /\ file = certificate(current.active_cert) \o <<"\n">>
                      \o private_key(current.active_cert)
        /\ Len(file) = Len(certificate(current.active_cert)) + 1
                           + Len(private_key(current.active_cert))
        /\ current.active_cert.id # 0

\* The first write replaced the longer content the file had.
C18_Witness ==
    /\ cycle.handler = "start"
    /\ cycle.write = "ok"
    /\ cycle.entry.active_cert.id = 0
    /\ Len(file) < Len(StaleFile)
    /\ file[1] = "CERTIFICATE"
    /\ file[3] = "\n"
    /\ file[4] = "PRIVATE KEY"

\* runHookCommands as called with an empty array, null or undefined.
NoHooks == {runHookCommands(Session, v, "onstart") : v \in {<<>>, Null, Undefined}}

\* C19: runHookCommands called with an empty array, null or undefined
\* resolves without starting a command or a timer; the handler that called
\* it with an empty list has gone on to the end: it has scheduled the
\* re-entry, or raised because the ttl it computed is not positive.
C19_EmptyHookListNoOp ==
    /\ \A r \in NoHooks :
          /\ r.runner = "resolved"
          /\ r.hooks = <<>>
          /\ r.timer = timer
          /\ r.pc = pc
    /\ (cycle.hooks # "none" /\ Len(HookSpecs) = 0)
          => /\ runner = "resolved"
             /\ hooks = <<>>
             /\ pc # "hooks"
             /\ \/ cycle.ended = "scheduled" /\ cycle.scheduled = 1 /\ timer.set
                \/ /\ cycle.ended = "threw"
                   /\ CertData(Session).expiration * MsPerSec - cycle.at <= 0

\* A promotion with an empty onreplace list went on to ok.
C19_Witness ==
    /\ cycle.hooks = "onreplace"
    /\ config.onreplace = <<>>
    /\ cycle.promoted
    /\ cycle.ended = "scheduled"
    /\ current.status = "ok"

\* C20: a store write is attempted only after the fetch of the invocation
\* succeeded or, in the error handler after a failed fetch, for the standby
\* the handler found; what a successful write wrote is that certificate;
\* and a hook list is run only after the write of the invocation succeeded.
C20_FetchWriteHooksOrder ==
    /\ cycle.write # "none"
          => \/ cycle.fetch = "ok"
             \/ /\ cycle.handler = "error"
                /\ cycle.fetch = "fail"
                /\ cycle.entry.second_cert.id # 0
    /\ (cycle.write = "ok" /\ cycle.fetch = "ok")
          => current.active_cert.id = cycle.certData /\ file = Bundle(current.active_cert)
    /\ (cycle.write = "ok" /\ cycle.fetch = "fail")
          => /\ current.active_cert = cycle.entry.second_cert
             /\ file = Bundle(cycle.entry.second_cert)
    /\ cycle.fetch = "none" => cycle.write = "none"
    /\ cycle.hooks # "none" => cycle.write = "ok"

\* The error handler's fetch failed, the standby of an earlier cycle was
\* written and the onreplace commands were run.
C20_Witness ==
    /\ cycle.handler = "error"
    /\ cycle.fetch = "fail"
    /\ cycle.write = "ok"
    /\ cycle.hooks = "onreplace"
    /\ Len(hooks) > 0
    /\ cycle.entry.second_cert.id # 0

\* C21 as stated: a start cycle whose fetch succeeded and whose write failed
\* stays in start, schedules the re-entry after intervals.default, runs no
\* hook and leaves no active_cert in the session.
C21_StartWriteFailureDiscards ==
    (cycle.handler = "start" /\ cycle.fetch = "ok" /\ cycle.write = "fail")
    => /\ current.status = "start"
       /\ cycle.ended = "scheduled"
       /\ cycle.delay = config.intervals.default
       /\ cycle.hooks = "none"
       /\ current.active_cert = NoCert

\* C21 amended: ... runs no hook, leaves the file as it was, and the fetched
\* certificate stays in active_cert, without a ttl and with no standby,
\* until the fetch of a later start cycle replaces it.
C21_StartWriteFailureKeepsUnused ==
    /\ (cycle.handler = "start" /\ cycle.fetch = "ok" /\ cycle.write = "fail")
       => /\ current.status = "start"
          /\ cycle.ended = "scheduled"
          /\ cycle.scheduled = 1
          /\ pc = "idle"
          /\ timer.set
          /\ timer.due = cycle.at + (IF config.intervals.default < 1 THEN 1
                                     ELSE config.intervals.default)
          /\ cycle.delay = config.intervals.default
          /\ cycle.hooks = "none"
          /\ current.active_cert.id = cycle.certData
          /\ current.active_cert.ttl = NaN
          /\ current.second_cert = NoCert
          /\ file # Bundle(current.active_cert)
    /\ (cycle.handler = "start" /\ cycle.fetch = "ok"
            /\ cycle.entry.active_cert.id # 0)
       => /\ cycle.entry.status = "start"
          /\ current.active_cert.id = cycle.certData
          /\ current.active_cert.id # cycle.entry.active_cert.id

\* The first write failed and the start cycle after it fetched again and
\* wrote the new certificate over the one kept in the session.
C21_Witness ==
    /\ cycle.handler = "start"
    /\ cycle.fetch = "ok"
    /\ cycle.write = "ok"
    /\ cycle.entry.active_cert.id # 0
    /\ cycle.entry.status = "start"
    /\ current.active_cert.id # cycle.entry.active_cert.id
    /\ file = Bundle(current.active_cert)

\* The time a timer set at the end of this invocation is due.
DueAfter(delay) == cycle.at + (IF delay = NaN \/ delay < 1 THEN 1 ELSE delay)

\* C22: an ok cycle whose fetch succeeded inside the buffer window and whose
\* write failed ends in error with the re-entry scheduled after
\* active_cert.ttl * intervals.error, active_cert and the file as they were,
\* the fetched certificate kept as second_cert, and no hook run.
C22_OkWriteFailureKeepsStandby ==
    /\ (cycle.handler = "ok" /\ cycle.fetch = "ok" /\ InWindow)
       => cycle.write # "none"
    /\ (cycle.handler = "ok" /\ cycle.fetch = "ok" /\ cycle.write = "fail")
       => /\ InWindow
          /\ current.status = "error"
          /\ cycle.ended = "scheduled"
          /\ cycle.scheduled = 1
          /\ timer.set
          /\ cycle.delay # NaN
          /\ cycle.delay = Times(current.active_cert.ttl, config.intervals.error)
          /\ timer.due = DueAfter(cycle.delay)
          /\ current.active_cert = cycle.entry.active_cert
          /\ file = Bundle(current.active_cert)
          /\ current.second_cert.id # 0
          /\ current.second_cert.id = cycle.certData
          /\ current.second_cert # cycle.entry.second_cert
          /\ ~cycle.promoted
          /\ cycle.hooks = "none"

\* With onreplace commands configured, the write of a promotion in the ok
\* handler failed: the session is in error and holds the fetched standby.
C22_Witness ==
    /\ cycle.handler = "ok"
    /\ cycle.write = "fail"
    /\ config.onreplace # <<>>
    /\ current.status = "error"
    /\ current.second_cert.id = cycle.certData
    /\ timer.set

\* C23: in an error cycle whose fetch failed, the standby is written exactly
\* when the active certificate is in its buffer window and a standby is
\* held; a successful write makes it active, clears the standby and runs the
\* onreplace hooks; a failed write changes nothing and is not raised; the
\* cycle raises only for an exhausted hook; and when it does not, the status
\* is error and the re-entry is scheduled after the ttl of the active
\* certificate found at entry times intervals.error.
C23_ErrorFetchFailureBranch ==
    (cycle.handler = "error" /\ cycle.fetch = "fail") =>
        /\ cycle.write # "none" <=> (InWindow /\ cycle.entry.second_cert.id # 0)
        /\ cycle.write = "ok"
              => /\ cycle.promoted
                 /\ current.active_cert = cycle.entry.second_cert
                 /\ current.second_cert = NoCert
                 /\ file = Bundle(current.active_cert)
                 /\ cycle.hooks = "onreplace"
        /\ cycle.write # "ok"
              => /\ ~cycle.promoted
                 /\ NotMutated
                 /\ file = Bundle(current.active_cert)
                 /\ cycle.hooks = "none"
                 /\ cycle.ended = "scheduled"
        /\ cycle.ended = "threw" => runner = "rejected"
        /\ current.status = "error"
        /\ cycle.ended = "scheduled"
              => /\ cycle.scheduled = 1
                 /\ timer.set
                 /\ cycle.delay = Times(cycle.entry.active_cert.ttl,
                                        config.intervals.error)
                 /\ timer.due = DueAfter(cycle.delay)
                 /\ cycle.hooks = "onreplace" => runner = "resolved"

\* A standby was promoted after a failed fetch, its onreplace commands ran,
\* and the re-entry was scheduled from the ttl of the certificate it replaced.
C23_Witness ==
    /\ cycle.handler = "error"
    /\ cycle.fetch = "fail"
    /\ cycle.promoted
    /\ Len(hooks) > 0
    /\ cycle.ended = "scheduled"
    /\ cycle.delay # NaN
    /\ cycle.delay # Times(current.active_cert.ttl, config.intervals.error)

\* The ttl the handler computes for the certificate it fetched.
FetchedTtl == CertData(Session).expiration * MsPerSec - cycle.at

\* From here on the CA, the store and the commands succeed, and the
\* re-entry that is pending comes before the active certificate expires.
SucceedingInTime ==
    /\ current.status = "error"
    /\ pc = "idle"
    /\ failures = MaxFailures
    /\ timer.due <= MaxTime
    /\ timer.due <= current.active_cert.expiration * MsPerSec

\* C24: an error cycle whose fetch succeeded, whose promotion write (if one
\* was due) and onreplace hooks succeeded and whose new ttl is positive ends
\* in ok with the re-entry scheduled after intervals.ok * ttl of the fetched
\* certificate; and from error, once the CA succeeds before the active
\* certificate expires, the session gets back to ok unless the ttl of the
\* certificate the CA gave is not positive.
C24_Recovery ==
    /\ []((/\ cycle.handler = "error"
            /\ cycle.fetch = "ok"
            /\ cycle.write # "fail"
            /\ Ended
            /\ runner # "rejected"
            /\ FetchedTtl > 0)
           => /\ current.status = "ok"
              /\ cycle.ended = "scheduled"
              /\ cycle.scheduled = 1
              /\ timer.set
              /\ CertData(Session).ttl = FetchedTtl
              /\ cycle.delay = (config.intervals.ok * FetchedTtl) \div 100
              /\ timer.due = DueAfter(cycle.delay))
    /\ SucceedingInTime
          ~> \/ current.status = "ok"
             \/ cycle.ended = "threw" /\ cycle.fetch = "ok" /\ FetchedTtl <= 0

\* The session is back in ok after three failures and a fetch in the error
\* handler that succeeded.
C24_Witness ==
    /\ cycle.handler = "error"
    /\ cycle.fetch = "ok"
    /\ failures = MaxFailures
    /\ current.status = "ok"
    /\ timer.set
    /\ prev.handler \in {"ok", "error"}
    /\ prev.ended = "scheduled"

\* A retry timer of the runner is due after the time horizon.
PastHorizon ==
    \E i \in 1..Len(hooks) : hooks[i].st = "waiting" /\ hooks[i].due > MaxTime

\* C25: with every retry_num at least 1 and every command execution ending,
\* no command is attempted more than retry_num times, a command that has
\* succeeded is not attempted again, and the promise of runHookCommands
\* settles.
C25_RunnerTerminates ==
    /\ [](\A i \in 1..Len(hooks) :
            /\ HookSpecs[i].onfail.retry_num >= 1
            /\ hooks[i].attempts >= 1
            /\ hooks[i].attempts <= HookSpecs[i].onfail.retry_num)
    /\ [][\A i \in 1..Len(hooks) :
            (pc # "fetch" /\ hooks[i].st = "succeeded")
            => Len(hooks') = Len(hooks) /\ hooks'[i] = hooks[i]]_vars
    /\ (runner = "pending") ~> (runner # "pending" \/ PastHorizon)

\* The runner was fulfilled by a command that succeeded on the last of its
\* three attempts.
C25_Witness ==
    /\ runner = "resolved"
    /\ \E i \in 1..Len(hooks) :
          /\ hooks[i].st = "succeeded"
          /\ hooks[i].attempts = 3
          /\ HookSpecs[i].onfail.retry_num = 3
          /\ hooks[i].waits = 2

\* The defaults of the retry policy.
DefaultRetryEvery == 60000

DefaultRetryNum == 7

\* C26: every command of the hook runner works with a retry_every in
\* [1000, 1800000] and a retry_num in [1, 1000]: those of its hook spec, or
\* the defaults 60000 and 7 where the spec has no onfail, onfail = true, or
\* an onfail object without the field.
C26_HooksCarryRetryPolicy ==
    \A i \in 1..Len(hooks) :
        LET given == IF "onfail" \in DOMAIN HookSpecs[i] THEN HookSpecs[i].onfail
                     ELSE True
        IN  /\ hooks[i].interval >= 1000 /\ hooks[i].interval <= 1800000
            /\ hooks[i].maxAttempts >= 1 /\ hooks[i].maxAttempts <= 1000
            /\ hooks[i].interval = IF "retry_every" \in DOMAIN given
                                   THEN given.retry_every ELSE DefaultRetryEvery
            /\ hooks[i].maxAttempts = IF "retry_num" \in DOMAIN given
                                      THEN given.retry_num ELSE DefaultRetryNum

\* The certificates a session holds.
Held(c) == {c.active_cert, c.second_cert} \ {NoCert}

C28_ActiveTtlDefined ==
    (pc = "idle" /\ current.status \in {"ok", "error"})
    => /\ current.active_cert.id # 0
       /\ current.active_cert.ttl # NaN
       /\ current.active_cert.ttl > 0
       /\ timer.set => (cycle.delay # NaN /\ cycle.delay >= 0)

\* The certificate this invocation fetched had already expired when the CA
\* call returned.
FetchedExpired ==
    /\ cycle.fetch = "ok"
    /\ CertData(Session).expiration * MsPerSec - cycle.fetchedAt <= 0

\* The invocation ended with the error of the ttl check.
TtlThrow ==
    /\ cycle.fetch = "ok"
    /\ cycle.ended = "threw"
    /\ runner # "rejected"

\* C29 as stated: a certificate that had expired when it was fetched is not
\* written to the file and no hook list is run for it.
C29_ExpiredNeverInstalled ==
    FetchedExpired
    => /\ cycle.write # "ok"
       /\ cycle.hooks = "none"
       /\ file # Bundle(CertData(Session))

\* C29 amended: the expiration is checked last. A certificate that had
\* expired when it was fetched is written and its hooks are run as for any
\* other: always by the start handler, in the buffer window by the ok and
\* error handlers. The invocation then ends with the error of the ttl check,
\* unless the write failed: no ttl is recorded, nothing is scheduled and the
\* status is left as it was.
C29_ExpirationCheckedLast ==
    /\ (FetchedExpired /\ Ended)
       => \/ cycle.write = "fail" /\ cycle.ended = "scheduled"
          \/ cycle.ended = "threw"
    /\ TtlThrow
       => /\ FetchedTtl <= 0
          /\ CertData(Session).ttl = NaN
          /\ ~timer.set
          /\ current.status = cycle.entry.status
          /\ cycle.write = "ok" <=> (cycle.handler = "start" \/ InWindow)
          /\ cycle.write = "ok"
             => /\ file = Bundle(CertData(Session))
                /\ current.active_cert.id = cycle.certData
                /\ cycle.hooks = (IF cycle.handler = "start" THEN "onstart"
                                   ELSE "onreplace")
          /\ cycle.write # "ok"
             => /\ cycle.write = "none"
                /\ cycle.hooks = "none"
                /\ current.second_cert.id = cycle.certData

\* The start handler wrote a certificate that had expired when it was
\* fetched, its onstart commands succeeded, and then the ttl check threw.
C29_Witness ==
    /\ FetchedExpired
    /\ TtlThrow
    /\ cycle.handler = "start"
    /\ file = Bundle(CertData(Session))
    /\ Len(config.onstart) > 0
    /\ hookName = "onstart"
    /\ runner = "resolved"

\* C30: while the process runs and no invocation has raised, either one
\* invocation is in progress and no re-entry is pending, or none is in
\* progress and one re-entry is pending; the step in which an invocation
\* returns is the one that arms the timer, once, for the delay it computed;
\* and a pending re-entry fires unless the process exits first.
C30_ScheduleNeverLapses ==
    /\ []((proc = "running" /\ pc \notin {"boot", "rejected"})
           => (pc \in {"fetch", "hooks"}) # (pc = "idle" /\ timer.set))
    /\ [](timer.set => pc = "idle")
    /\ [][(cycle.ended = "no" /\ cycle'.ended = "scheduled")
           => /\ ~timer.set
              /\ timer' = setTimeout(cycle'.delay, now)
              /\ cycle'.scheduled = 1
              /\ pc' = "idle"]_vars
    /\ [][(cycle'.handler # "none" /\ ~timer.set /\ timer'.set)
           => (cycle.ended = "no" /\ cycle'.ended = "scheduled")]_vars
    /\ (proc = "running" /\ timer.set /\ timer.due <= MaxTime)
           ~> (~timer.set \/ proc # "running")

\* An error invocation has returned after a failed CA call and its re-entry is
\* pending, in a process that still runs.
C30_Witness ==
    /\ proc = "running"
    /\ cycle.handler = "error"
    /\ cycle.fetch = "fail"
    /\ cycle.ended = "scheduled"
    /\ pc = "idle"
    /\ timer.set
    /\ timer.due <= MaxTime
    /\ now < timer.due

\* One step of the retry loop of a command, from closure h to closure g.
LoopStep(h, g) ==
    \/ /\ h.st = "waiting"
       /\ now >= h.due
       /\ g = [h EXCEPT !.st = "running", !.attempts = @ + 1]
    \/ /\ h.st = "running"
       /\ g = [h EXCEPT !.st = "succeeded"]
    \/ /\ h.st = "running"
       /\ h.attempts < h.maxAttempts
       /\ g = [h EXCEPT !.st = "waiting",
                        !.due = setTimeout(h.interval, now).due,
                        !.waits = @ + 1,
                        !.waited = @ + h.interval]
    \/ /\ h.st = "running"
       /\ h.attempts >= h.maxAttempts
       /\ g = [h EXCEPT !.st = "exhausted"]

OnstartRun == cycle.hooks # "onstart" /\ cycle'.hooks = "onstart"

\* C32: the onstart list is run only by a start invocation, in the step
\* that wrote the first certificate to the file; a start invocation that
\* schedules another start attempt has had a failed fetch or a failed write
\* and has not run it; the invocation that ran it ends in a raise or in ok;
\* after a raise no invocation follows, and after ok or error no start
\* invocation follows.  So the list is run at most once, and when the status
\* is ok or error no onstart command is running or waiting for a retry.
C32_OnstartAtMostOnce ==
    /\ [][OnstartRun
           => /\ pc = "fetch"
              /\ cycle.handler = "start"
              /\ cycle.write = "none"
              /\ current.status = "start"
              /\ prev.handler \in {"none", "start"}
              /\ cycle'.handler = "start"
              /\ cycle'.fetch = "ok"
              /\ cycle'.write = "ok"
              /\ file' = Bundle(current'.active_cert)
              /\ hookName' = "onstart"
              /\ Len(hooks') = Len(config.onstart)]_vars
    /\ []((cycle.handler = "start" /\ cycle.ended = "scheduled"
                                   /\ current.status = "start")
           => /\ cycle.hooks = "none"
              /\ hookName = "none"
              /\ cycle.fetch = "fail" \/ cycle.write = "fail")
    /\ []((cycle.hooks = "onstart" /\ Ended)
           => \/ cycle.ended = "threw"
              \/ cycle.ended = "scheduled" /\ current.status = "ok")
    /\ [][cycle.ended = "threw" => cycle' = cycle]_vars
    /\ [][(cycle.hooks = "onstart" \/ cycle.handler \in {"ok", "error"})
           => \/ cycle'.hooks = "onstart"
              \/ cycle'.handler \in {"ok", "error"}]_vars
    /\ [](cycle.handler \in {"ok", "error"} => cycle.hooks # "onstart")
    /\ []((current.status \in {"ok", "error"} /\ hookName = "onstart")
           => \A i \in 1..Len(hooks) : hooks[i].st = "succeeded")

\* After a start attempt that failed, the next one wrote the certificate, ran
\* the onstart commands, one of them twice, and ended in ok.
C32_Witness ==
    /\ cycle.handler = "start"
    /\ prev.handler = "start"
    /\ prev.ended = "scheduled"
    /\ cycle.hooks = "onstart"
    /\ cycle.ended = "scheduled"
    /\ current.status = "ok"
    /\ \E i \in 1..Len(hooks) : hooks[i].attempts = 2

\* The moves of the status the handlers make.
StatusMoves ==
    { <<"start", "start">>, <<"start", "ok">>, <<"ok", "ok">>,
      <<"ok", "error">>, <<"error", "error">>, <<"error", "ok">> }

Moves(from, to) == \E m \in StatusMoves : m[1] = from /\ m[2] = to

\* C33: the status is start, ok or error and a step takes it only along
\* start->start, start->ok, ok->ok, ok->error, error->error, error->ok.  It
\* changes only in the step that ends an invocation: to ok when the handler
\* recorded the ttl of the certificate it fetched, to error when the fetch or
\* the write of the ok handler failed.
C33_StatusMoves ==
    /\ [](current.status \in {"start", "ok", "error"})
    /\ [][Moves(current.status, current'.status)]_vars
    /\ [][current'.status # current.status
           => /\ cycle.ended = "no"
              /\ cycle'.ended = "scheduled"
              /\ cycle'.handler = current.status
              /\ cycle'.entry.status = current.status
              /\ current'.status = "ok"
                 => /\ cycle'.fetch = "ok"
                    /\ cycle'.write # "fail"
                    /\ CertData([current |-> current', cycle |-> cycle']).ttl # NaN
              /\ current'.status = "error"
                 => cycle'.fetch = "fail" \/ cycle'.write = "fail"]_vars
    /\ [](cycle.handler \in {"start", "ok", "error"}
           => /\ cycle.handler = cycle.entry.status
              /\ Moves(cycle.entry.status, current.status))

\* The status has gone from start to ok, from ok to error and, in this
\* invocation, from error back to ok.
C33_Witness ==
    /\ prev.handler = "ok"
    /\ prev.ended = "scheduled"
    /\ cycle.handler = "error"
    /\ cycle.entry.status = "error"
    /\ cycle.ended = "scheduled"
    /\ current.status = "ok"

====
